---- MODULE Spec2Model ----
(***************************************************************************)
(* Model of app.py, the France investor dashboard: load_csv, clean_macro,  *)
(* plot_hist_forecast_band, the sidebar sliders, the three tabs and the    *)
(* sector scorecard.                                                       *)
(*                                                                         *)
(* Text is a sequence of one-character strings.  A number read from a CSV  *)
(* cell is kept in tenths (2.3 is 23, the year 2021 is 20210).  The band   *)
(* arithmetic of plot_hist_forecast_band is IEEE-754 double arithmetic and *)
(* is modelled as such (see the section "float").                          *)
(***************************************************************************)
EXTENDS Integers, Sequences, FiniteSets

\* ------------------------------------------------------------------ bounds
\* Longest input table of the function-level specifications.
MaxRows == 3

\* ------------------------------------------------------------------ text
WhiteSpace == {" ", "\t"}

UpperCase == <<"A","B","C","D","E","F","G","H","I","J","K","L","M",
               "N","O","P","Q","R","S","T","U","V","W","X","Y","Z">>
LowerCase == <<"a","b","c","d","e","f","g","h","i","j","k","l","m",
               "n","o","p","q","r","s","t","u","v","w","x","y","z">>

\* str.lower() on one character.
lower_char(ch) ==
    IF \E i \in 1..Len(UpperCase) : UpperCase[i] = ch
    THEN LowerCase[CHOOSE i \in 1..Len(UpperCase) : UpperCase[i] = ch]
    ELSE ch

\* Series.str.lower() on one string.
str_lower(s) == [i \in 1..Len(s) |-> lower_char(s[i])]

RECURSIVE lstrip(_)
lstrip(s) == IF s # <<>> /\ Head(s) \in WhiteSpace THEN lstrip(Tail(s)) ELSE s

RECURSIVE rstrip(_)
rstrip(s) ==
    IF s # <<>> /\ s[Len(s)] \in WhiteSpace
    THEN rstrip(SubSeq(s, 1, Len(s) - 1))
    ELSE s

\* A faulty strip, which leaves trailing blanks (C5 must tell it apart).
str_strip_left_only(s) == lstrip(s)
\* Series.str.strip() on one string.
str_strip(s) == rstrip(lstrip(s))

\* ------------------------------------------------------------------ cells
\* A cell of a table: a number (t = "num", v in tenths), text (t = "str")
\* or missing (t = "nan", what pandas calls NaN).
Num(v) == [t |-> "num", v |-> v, s |-> <<>>]
Str(s) == [t |-> "str", v |-> 0, s |-> s]
NaN == [t |-> "nan", v |-> 0, s |-> <<>>]

Digits == <<"0","1","2","3","4","5","6","7","8","9">>
IsDigit(ch) == \E i \in 1..10 : Digits[i] = ch
DigitVal(ch) == (CHOOSE i \in 1..10 : Digits[i] = ch) - 1

RECURSIVE DigitsVal(_)
DigitsVal(s) ==
    IF s = <<>> THEN 0 ELSE 10 * DigitsVal(SubSeq(s, 1, Len(s) - 1)) + DigitVal(s[Len(s)])

AllDigits(s) == s # <<>> /\ \A i \in 1..Len(s) : IsDigit(s[i])

\* The decimal literals the model reads: [-]ddd or [-]ddd.d (tenths).
\* Everything else fails to parse.
ParseUnsigned(s) ==
    IF AllDigits(s) THEN Num(10 * DigitsVal(s))
    ELSE IF Len(s) >= 3 /\ s[Len(s) - 1] = "."
            /\ AllDigits(SubSeq(s, 1, Len(s) - 2)) /\ IsDigit(s[Len(s)])
         THEN Num(10 * DigitsVal(SubSeq(s, 1, Len(s) - 2)) + DigitVal(s[Len(s)]))
         ELSE NaN

ParseNumber(s) ==
    IF s # <<>> /\ Head(s) = "-"
    THEN LET u == ParseUnsigned(Tail(s))
         IN  IF u.t = "num" THEN Num(0 - u.v) ELSE NaN
    ELSE ParseUnsigned(s)

\* pd.to_numeric(cell, errors="coerce"): a number stays, text is parsed,
\* and whatever does not parse becomes NaN.
to_numeric(c) ==
    CASE c.t = "num" -> c
      [] c.t = "str" -> ParseNumber(c.s)
      [] OTHER -> NaN

\* .astype(str) on a Type cell: text stays, a missing cell becomes "nan".
astype_str(c) ==
    CASE c.t = "str" -> c.s
      [] OTHER -> <<"n","a","n">>

\* ------------------------------------------------------------------ tables
\* A DataFrame: rows in order, each with its index label (idx), the cell
\* of the year column, the cell of the value column and the Type cell
\* (present only when hasType).
Row(i, y, v, ty) == [idx |-> i, year |-> y, value |-> v, Type |-> ty]
DataFrame(h, rs) == [hasType |-> h, rows |-> rs]

\* pd.DataFrame(): no columns, no rows.
EmptyFrame == DataFrame(FALSE, <<>>)

coerce_year(r) == [r EXCEPT !.year = to_numeric(r.year)]
coerce_value(r) == [r EXCEPT !.value = to_numeric(r.value)]
strip_type(r) == [r EXCEPT !.Type = Str(str_strip(astype_str(r.Type)))]

\* A faulty dropna, on the year column alone (C1 must tell it apart).
NotMissingYearOnly(r) == r.year.t # "nan"
\* dropna(subset=[year_col, value_col]) keeps the rows that miss neither.
NotMissing(r) == r.year.t # "nan" /\ r.value.t # "nan"

dropna(rs) == SelectSeq(rs, NotMissing)

\* The orders DataFrame.sort_values may return.  Its default kind is
\* "quicksort", which pandas documents as not stable: rows come out in
\* the order of the key, and rows of equal key in an order the numpy
\* build decides.
Ordered(keys, p, ascending) ==
    \A i \in 1..(Len(keys) - 1) :
        IF ascending THEN keys[p[i]] <= keys[p[i + 1]]
                     ELSE keys[p[i]] >= keys[p[i + 1]]

IndexOrders(n) == { p \in [1..n -> 1..n] : \A i, j \in 1..n : p[i] = p[j] => i = j }

\* rs.sort_values(by, ascending=...), keys being the by column of rs.
sort_values(rs, keys, ascending) ==
    { [i \in 1..Len(rs) |-> rs[p[i]]] :
        p \in { q \in IndexOrders(Len(rs)) : Ordered(keys, q, ascending) } }

\* The year column and the value column of cleaned rows, as numbers.
Years(rs) == [i \in 1..Len(rs) |-> rs[i].year.v]
Values(rs) == [i \in 1..Len(rs) |-> rs[i].value.v]

\* clean_macro(df, year_col, value_col): the tables it may return.
clean_macro(df) ==
    LET c1 == [i \in 1..Len(df.rows) |-> coerce_year(df.rows[i])]
        c2 == [i \in 1..Len(c1) |-> coerce_value(c1[i])]
        c3 == IF df.hasType THEN [i \in 1..Len(c2) |-> strip_type(c2[i])] ELSE c2
        kept == dropna(c3)
    IN  { DataFrame(df.hasType, rs) : rs \in sort_values(kept, Years(kept), TRUE) }

\* ------------------------------------------------------------------ float
\* Python floats are IEEE-754 doubles.  Every double the band arithmetic
\* meets is a multiple of 2^-57 below 2^5, so a double is kept as its sign
\* and its magnitude in units of 2^-57, the magnitude in three limbs
\* a * 2^40 + b * 2^20 + c with b, c < 2^20.  An operation computes the
\* exact result and rounds it to 53 significant bits, ties to even.
Limb == 1048576

Mag(a, b, c) == [a |-> a, b |-> b, c |-> c]
Float(neg, m) == [neg |-> neg, m |-> m]
MagZero == Mag(0, 0, 0)
FZero == Float(FALSE, MagZero)

\* Carries propagated: limbs b and c brought back below 2^20.
Normalise(a, b, c) ==
    LET b1 == b + (c \div Limb)
    IN  Mag(a + (b1 \div Limb), b1 % Limb, c % Limb)

MagAdd(x, y) == Normalise(x.a + y.a, x.b + y.b, x.c + y.c)

MagLess(x, y) ==
    \/ x.a < y.a
    \/ x.a = y.a /\ x.b < y.b
    \/ x.a = y.a /\ x.b = y.b /\ x.c < y.c

\* x - y for x >= y: \div and % floor, so a borrow is a carry of -1.
MagSub(x, y) == Normalise(x.a - y.a, x.b - y.b, x.c - y.c)

RECURSIVE BitLen(_)
BitLen(n) == IF n = 0 THEN 0 ELSE 1 + BitLen(n \div 2)

RECURSIVE Pow2(_)
Pow2(n) == IF n = 0 THEN 1 ELSE 2 * Pow2(n - 1)

\* Bits of the magnitude beyond the 53 a double holds (they lie in limb c).
ExcessBits(m) == IF BitLen(m.a) > 13 THEN BitLen(m.a) - 13 ELSE 0

\* Round a magnitude to 53 significant bits, to nearest, ties to even;
\* sticky says that the exact value lies strictly above the magnitude.
Round53(m, sticky) ==
    LET s == ExcessBits(m)
        q == Pow2(s)
        r == m.c % q
        odd == (m.c \div q) % 2 = 1
        up == IF s = 0
              THEN FALSE
              ELSE \/ 2 * r > q
                   \/ 2 * r = q /\ (sticky \/ odd)
    IN  Normalise(m.a, m.b, m.c - r + (IF up THEN q ELSE 0))

\* The exact sum of two doubles, before rounding.
ExactAdd(x, y) ==
    IF x.neg = y.neg THEN Float(x.neg, MagAdd(x.m, y.m))
    ELSE IF x.m = y.m THEN FZero
    ELSE IF MagLess(x.m, y.m) THEN Float(y.neg, MagSub(y.m, x.m))
    ELSE Float(x.neg, MagSub(x.m, y.m))

\* float + float.
fadd(x, y) ==
    LET e == ExactAdd(x, y)
    IN  Float(e.neg, Round53(e.m, FALSE))

fneg(x) == IF x.m = MagZero THEN x ELSE Float(~x.neg, x.m)

\* float - float.
fsub(x, y) == fadd(x, fneg(y))

\* float / 2: exact, the magnitudes met here being even.
fhalf(x) ==
    Float(x.neg, Mag(x.m.a \div 2,
                     (x.m.b + Limb * (x.m.a % 2)) \div 2,
                     (x.m.c + Limb * (x.m.b % 2)) \div 2))

\* x <= y on floats.
fleq(x, y) ==
    IF x.neg /\ ~y.neg THEN TRUE
    ELSE IF ~x.neg /\ y.neg THEN FALSE
    ELSE IF x.neg THEN ~MagLess(x.m, y.m)
    ELSE ~MagLess(y.m, x.m)

\* The double a decimal literal k/10 denotes (k in tenths): k * 2^57 / 10
\* by long division over the limbs, correctly rounded.
FromTenths(k) ==
    LET n == IF k < 0 THEN 0 - k ELSE k
        a0 == n * 131072
        t1 == (a0 % 10) * Limb
        t2 == (t1 % 10) * Limb
        q == Mag(a0 \div 10, t1 \div 10, t2 \div 10)
    IN  IF n = 0 THEN FZero ELSE Float(k < 0, Round53(q, t2 % 10 # 0))

\* ------------------------------------------------------------------ plot
Historical == <<"h","i","s","t","o","r","i","c","a","l">>
Forecast == <<"f","o","r","e","c","a","s","t">>

\* df["Type"].str.lower() == "historical" / == "forecast", row by row.
is_historical(r) == str_lower(r.Type.s) = Historical
is_forecast(r) == str_lower(r.Type.s) = Forecast

\* .astype(int) on a year: truncation toward zero.
astype_int(c) == IF c.v >= 0 THEN c.v \div 10 ELSE 0 - ((0 - c.v) \div 10)

Line2D(x, y, marker, linewidth, linestyle, label) ==
    [x |-> x, y |-> y, marker |-> marker, linewidth |-> linewidth,
     linestyle |-> linestyle, label |-> label]

\* hist and fcst of plot_hist_forecast_band.
HistOf(d) == IF d.hasType THEN SelectSeq(d.rows, is_historical) ELSE d.rows
FcstOf(d) == IF d.hasType THEN SelectSeq(d.rows, is_forecast) ELSE EmptyFrame.rows

\* A faulty historical line, drawn without the "if not hist.empty" guard
\* (C6 must tell it apart).
HistLinesUnguarded(hist) ==
    << Line2D(Years(hist), Values(hist), "o", 2, "-", "Historical") >>
\* The lines ax.plot draws, in drawing order.
HistLines(hist) ==
    IF hist # <<>>
    THEN << Line2D(Years(hist), Values(hist), "o", 2, "-", "Historical") >>
    ELSE << >>

\* A faulty connector, from the first historical row (C10 must tell it
\* apart).
ConnectorFromFirst(hist, fcst) ==
    Line2D(<< hist[1].year.v, fcst[1].year.v >>,
           << hist[1].value.v, fcst[1].value.v >>, "", 1, "--", "")
\* The connector: hist.iloc[-1] to fcst.iloc[0].
Connector(hist, fcst) ==
    Line2D(<< hist[Len(hist)].year.v, fcst[1].year.v >>,
           << hist[Len(hist)].value.v, fcst[1].value.v >>, "", 1, "--", "")

FcstLines(hist, fcst) ==
    IF fcst # <<>>
    THEN << Line2D(Years(fcst), Values(fcst), "o", 2, "--", "Forecast (to 2030)") >>
         \o (IF hist # <<>> THEN << Connector(hist, fcst) >> ELSE << >>)
    ELSE << >>

\* A faulty lower bound, the whole width below the center (C7 must tell it
\* apart).
BandLowerFullWidth(band_center, band_width) == fsub(band_center, band_width)
\* lower = band_center - band_width / 2; upper = band_center + band_width / 2.
BandLower(band_center, band_width) == fsub(band_center, fhalf(band_width))
BandUpper(band_center, band_width) == fadd(band_center, fhalf(band_width))

\* The body of plot_hist_forecast_band after its call of clean_macro: the
\* locals df, hist and fcst, and the figure it returns.
PlotCleaned(d, title, y_label, band_center, band_width) ==
    LET hist == HistOf(d)
        fcst == FcstOf(d)
        lower == BandLower(band_center, band_width)
        upper == BandUpper(band_center, band_width)
        lines == HistLines(hist) \o FcstLines(hist, fcst)
    IN  [df |-> d, hist |-> hist, fcst |-> fcst,
         fig |-> [title |-> title, xlabel |-> "Year", ylabel |-> y_label,
                  axhspan |-> << lower, upper >>,
                  axhline |-> band_center,
                  lines |-> lines,
                  xticks |-> [i \in 1..Len(d.rows) |-> astype_int(d.rows[i].year)],
                  legend |-> << "Expected Range" >>
                             \o SelectSeq([i \in 1..Len(lines) |-> lines[i].label],
                                          LAMBDA l : l # "")]]

\* plot_hist_forecast_band(df, year_col, value_col, title, y_label,
\* band_center, band_width): the results it may return.
plot_hist_forecast_band(df, title, y_label, band_center, band_width) ==
    { PlotCleaned(d, title, y_label, band_center, band_width) : d \in clean_macro(df) }

\* ------------------------------------------------------------------ state
VARIABLES
    \* one call of clean_macro / plot_hist_forecast_band
    arg_df,         \* the table passed in
    arg_center,     \* band_center, in tenths
    arg_width,      \* band_width, in tenths
    step,           \* "input", "cleaned", "recleaned" or "plotted"
    ret_clean,      \* clean_macro(arg_df)
    ret_reclean,    \* clean_macro(ret_clean)
    ret_plot        \* plot_hist_forecast_band(arg_df, ...)

fvars == << arg_df, arg_center, arg_width, step, ret_clean, ret_reclean, ret_plot >>

VARIABLES
    \* one run of the script after another (a render pass each)
    pc,             \* the statement the script is at
    dir,            \* the file names in BASE_DIR
    contents,       \* what pd.read_csv reads from each CSV file in BASE_DIR
    ui,             \* the elements the pass has put on the page, in order
    bound,          \* the table names the script has assigned so far
    gdp, inflation, unemp, lpi, ftth,
    gdp_center, gdp_width, inf_center, inf_width, un_center, un_width,
    scorecard

rvars == << pc, dir, contents, ui, bound, gdp, inflation, unemp, lpi, ftth,
            gdp_center, gdp_width, inf_center, inf_width, un_center, un_width,
            scorecard >>

vars == << fvars, rvars >>

\* The script variables before the script has assigned them.
Unassigned ==
    /\ bound = {}
    /\ gdp = EmptyFrame /\ inflation = EmptyFrame /\ unemp = EmptyFrame
    /\ lpi = EmptyFrame /\ ftth = EmptyFrame
    /\ gdp_center = 0 /\ gdp_width = 0 /\ inf_center = 0 /\ inf_width = 0
    /\ un_center = 0 /\ un_width = 0
    /\ scorecard = << >>

\* No script running: the function-level specifications.
NoScript ==
    /\ pc = "none"
    /\ dir = {}
    /\ contents = << >>
    /\ ui = << >>
    /\ Unassigned

\* ------------------------------------------------------------------ inputs
\* Rows a CSV may hold: parseable and unparseable years and values, cells
\* read as numbers, as text or missing, repeated years, and Type labels in
\* mixed case, with surrounding blanks, unknown or missing.
RowPool ==
    { << Str(<<"2","0","2","1">>), Str(<<"2",".","3">>), Str(<<"H","i","s","t","o","r","i","c","a","l">>) >>,
      << Str(<<"2","0","2","2">>), Str(<<"b","a","d">>), Str(<<"H","i","s","t","o","r","i","c","a","l">>) >>,
      << Str(<<"2","0","2","3">>), Str(<<"1",".","1">>), Str(<<"F","o","r","e","c","a","s","t">>) >>,
      << Num(20210), Num(5), Str(<<" ","f","o","r","e","c","a","s","t"," ">>) >>,
      << Str(<<"2","0","2","2">>), Str(<<"3",".","0">>), Str(<<" ","F","o","r","e","c","a","s","t"," ">>) >>,
      << Str(<<"2","0","2","2">>), Str(<<"2",".","3">>), Str(<<"H","I","S","T","O","R","I","C","A","L">>) >>,
      << Str(<<"n","/","a">>), Str(<<"2",".","3">>), Str(<<"H","i","s","t","o","r","i","c","a","l">>) >>,
      << Num(20220), NaN, Str(<<"F","o","r","e","c","a","s","t">>) >>,
      << Str(<<"2","0","2","2">>), Str(<<"1",".","1">>), Str(<<"E","s","t","i","m","a","t","e">>) >>,
      << Str(<<"2","0","2","3">>), Num(-4), NaN >> }

\* The tables of n rows, with a Type column and without; pandas labels the
\* rows it reads 0, 1, 2, ...
WithType(cells) ==
    DataFrame(TRUE, [i \in 1..Len(cells) |-> Row(i - 1, cells[i][1], cells[i][2], cells[i][3])])
WithoutType(cells) ==
    DataFrame(FALSE, [i \in 1..Len(cells) |-> Row(i - 1, cells[i][1], cells[i][2], NaN)])

TablesOf(n) ==
    { WithType(cells) : cells \in [1..n -> RowPool] }
    \cup { WithoutType(cells) : cells \in [1..n -> RowPool] }

Tables == UNION { TablesOf(n) : n \in 0..MaxRows }

NoPlot == PlotCleaned(EmptyFrame, "", "", FZero, FZero)

\* ------------------------------------------------------------------ calls
Clean ==
    /\ step = "input"
    /\ ret_clean' \in clean_macro(arg_df)
    /\ step' = "cleaned"
    /\ UNCHANGED << arg_df, arg_center, arg_width, ret_reclean, ret_plot >>
    /\ UNCHANGED rvars

CleanAgain ==
    /\ step = "cleaned"
    /\ ret_reclean' \in clean_macro(ret_clean)
    /\ step' = "recleaned"
    /\ UNCHANGED << arg_df, arg_center, arg_width, ret_clean, ret_plot >>
    /\ UNCHANGED rvars

Plot ==
    /\ step = "input"
    /\ ret_plot' \in plot_hist_forecast_band(arg_df, "title", "%", FromTenths(arg_center),
                                             FromTenths(arg_width))
    /\ step' = "plotted"
    /\ UNCHANGED << arg_df, arg_center, arg_width, ret_clean, ret_reclean >>
    /\ UNCHANGED rvars

FnNext == Clean \/ CleanAgain \/ Plot

FnInit ==
    /\ arg_df \in Tables
    /\ arg_center = 5
    /\ arg_width = 12
    /\ step = "input"
    /\ ret_clean = EmptyFrame
    /\ ret_reclean = EmptyFrame
    /\ ret_plot = NoPlot
    /\ NoScript

SpecFn == FnInit /\ [][FnNext]_vars

\* ------------------------------------------------------------------ sliders
\* st.sidebar.slider(label, min_value, max_value, value, step): the six
\* controls, in tenths (every step is 0.1).
GdpCenterMin == -20
GdpCenterMax == 40
GdpCenterValue == 5
GdpWidthMin == 2
GdpWidthMax == 60
GdpWidthValue == 12
InfCenterMin == 0
InfCenterMax == 100
InfCenterValue == 20
InfWidthMin == 2
InfWidthMax == 100
InfWidthValue == 20
UnCenterMin == 30
UnCenterMax == 120
UnCenterValue == 72
UnWidthMin == 2
UnWidthMax == 80
UnWidthValue == 15

\* What a slider can deliver: the 0.1 grid from min_value to max_value.
slider(min_value, max_value) == min_value..max_value

\* ------------------------------------------------------------------ band
\* The table of the scenario of the specification, and a table with a
\* header and no rows.
ScenarioTable ==
    WithType(<< << Str(<<"2","0","2","1">>), Str(<<"2",".","3">>), Str(<<"H","i","s","t","o","r","i","c","a","l">>) >>,
                << Str(<<"2","0","2","2">>), Str(<<"b","a","d">>), Str(<<"H","i","s","t","o","r","i","c","a","l">>) >>,
                << Str(<<"2","0","2","3">>), Str(<<"1",".","1">>), Str(<<"F","o","r","e","c","a","s","t">>) >> >>)
HeaderOnlyTable == WithType(<< >>)

BandInit ==
    /\ arg_df \in { ScenarioTable, HeaderOnlyTable }
    /\ \/ arg_center \in slider(GdpCenterMin, GdpCenterMax)
          /\ arg_width \in slider(GdpWidthMin, GdpWidthMax)
       \/ arg_center \in slider(InfCenterMin, InfCenterMax)
          /\ arg_width \in slider(InfWidthMin, InfWidthMax)
       \/ arg_center \in slider(UnCenterMin, UnCenterMax)
          /\ arg_width \in slider(UnWidthMin, UnWidthMax)
    /\ step = "input"
    /\ ret_clean = EmptyFrame
    /\ ret_reclean = EmptyFrame
    /\ ret_plot = NoPlot
    /\ NoScript

SpecBand == BandInit /\ [][FnNext]_vars

\* ------------------------------------------------------------------ script
\* BASE_DIR is the directory of app.py, so app.py is always one of its
\* files; what else it holds is the environment's choice.
BASE_DIR == "BASE_DIR"
CsvFiles == { "france_gdp.csv", "france_inflation.csv", "france_unemployment.csv",
              "france_lpi.csv", "france_ftth.csv" }

\* Tables a macro file (Year, value, Type) may hold: the scenario table,
\* one whose rows all fail to parse, one with a header only.
AllBadTable ==
    WithType(<< << Str(<<"n","/","a">>), Str(<<"2",".","3">>), Str(<<"H","I","S","T","O","R","I","C","A","L">>) >>,
                << Str(<<"2","0","2","2">>), Str(<<"b","a","d">>), Str(<<"H","i","s","t","o","r","i","c","a","l">>) >> >>)
MacroTables == { ScenarioTable, AllBadTable, HeaderOnlyTable }

\* Tables a trend file (Year, value) may hold.
TrendTable ==
    WithoutType(<< << Num(20230), Num(38), NaN >>,
                   << Str(<<"2","0","2","1">>), Str(<<"3",".","0">>), NaN >>,
                   << Str(<<"n","/","a">>), Str(<<"1",".","1">>), NaN >> >>)
TrendTables == { TrendTable, WithoutType(<< >>) }

TablesFor(f) == IF f \in { "france_lpi.csv", "france_ftth.csv" } THEN TrendTables ELSE MacroTables

\* The values the user leaves a slider at in the script-level
\* specification: its lowest value or its initial value.
slider_sample(min_value, value) == { min_value, value }

Element(kind, body) == [kind |-> kind, body |-> body]

\* os.path.join(BASE_DIR, filename) and os.path.exists(path).
path_join(base, filename) == << base, filename >>
path_exists(path) == path[1] = BASE_DIR /\ path[2] \in dir

\* A faulty load_csv, which reports the missing file and goes on without
\* st.stop() (C3 must tell it apart).
load_csv_no_stop(filename) ==
    LET path == path_join(BASE_DIR, filename)
    IN  IF ~path_exists(path)
        THEN [stopped |-> FALSE,
              shown |-> << Element("error", << "Missing file: ", path >>),
                           Element("write", << "Running from:", BASE_DIR >>),
                           Element("write", << "Files available:", dir >>) >>,
              table |-> EmptyFrame]
        ELSE [stopped |-> FALSE, shown |-> << >>, table |-> contents[filename]]
\* A faulty load_csv, which reports the path relative to the working
\* directory instead of BASE_DIR (C4 must tell it apart).
load_csv_relative_path(filename) ==
    LET path == path_join(BASE_DIR, filename)
    IN  IF ~path_exists(path)
        THEN [stopped |-> TRUE,
              shown |-> << Element("error", << "Missing file: ", path_join(".", filename) >>),
                           Element("write", << "Running from:", BASE_DIR >>),
                           Element("write", << "Files available:", dir >>) >>,
              table |-> EmptyFrame]
        ELSE [stopped |-> FALSE, shown |-> << >>, table |-> contents[filename]]
\* load_csv(filename): whether it stopped the script (st.stop()), what it
\* put on the page and the table it returned.
load_csv(filename) ==
    LET path == path_join(BASE_DIR, filename)
    IN  IF ~path_exists(path)
        THEN [stopped |-> TRUE,
              shown |-> << Element("error", << "Missing file: ", path >>),
                           Element("write", << "Running from:", BASE_DIR >>),
                           Element("write", << "Files available:", dir >>) >>,
              table |-> EmptyFrame]
        ELSE [stopped |-> FALSE, shown |-> << >>, table |-> contents[filename]]

Sliders == << gdp_center, gdp_width, inf_center, inf_width, un_center, un_width >>
Tables5 == << gdp, inflation, unemp, lpi, ftth >>

\* Lines 9-11: set_page_config, title, caption.
PageSetup ==
    /\ pc = "setup"
    /\ ui' = ui \o << Element("page_config", "France Investor Pitch Dashboard"),
                       Element("title", "France - Investor Pitch Dashboard (Investor View)"),
                       Element("caption", "Built for PGDM (MEEB)") >>
    /\ pc' = "load_gdp"
    /\ UNCHANGED << dir, contents, bound, Tables5, Sliders, scorecard >>
    /\ UNCHANGED fvars

\* Line 87: gdp = load_csv("france_gdp.csv").
LoadGdp ==
    /\ pc = "load_gdp"
    /\ LET r == load_csv("france_gdp.csv")
       IN  /\ ui' = ui \o r.shown
           /\ IF r.stopped
              THEN pc' = "stopped" /\ UNCHANGED << gdp, bound >>
              ELSE pc' = "load_inflation" /\ gdp' = r.table /\ bound' = bound \cup { "gdp" }
    /\ UNCHANGED << dir, contents, inflation, unemp, lpi, ftth, Sliders, scorecard >>
    /\ UNCHANGED fvars

\* Line 88: inflation = load_csv("france_inflation.csv").
LoadInflation ==
    /\ pc = "load_inflation"
    /\ LET r == load_csv("france_inflation.csv")
       IN  /\ ui' = ui \o r.shown
           /\ IF r.stopped
              THEN pc' = "stopped" /\ UNCHANGED << inflation, bound >>
              ELSE pc' = "load_unemp" /\ inflation' = r.table
                   /\ bound' = bound \cup { "inflation" }
    /\ UNCHANGED << dir, contents, gdp, unemp, lpi, ftth, Sliders, scorecard >>
    /\ UNCHANGED fvars

\* Line 89: unemp = load_csv("france_unemployment.csv").
LoadUnemp ==
    /\ pc = "load_unemp"
    /\ LET r == load_csv("france_unemployment.csv")
       IN  /\ ui' = ui \o r.shown
           /\ IF r.stopped
              THEN pc' = "stopped" /\ UNCHANGED << unemp, bound >>
              ELSE pc' = "load_lpi" /\ unemp' = r.table /\ bound' = bound \cup { "unemp" }
    /\ UNCHANGED << dir, contents, gdp, inflation, lpi, ftth, Sliders, scorecard >>
    /\ UNCHANGED fvars

\* Line 91: lpi = load_csv("france_lpi.csv").
LoadLpi ==
    /\ pc = "load_lpi"
    /\ LET r == load_csv("france_lpi.csv")
       IN  /\ ui' = ui \o r.shown
           /\ IF r.stopped
              THEN pc' = "stopped" /\ UNCHANGED << lpi, bound >>
              ELSE pc' = "load_ftth" /\ lpi' = r.table /\ bound' = bound \cup { "lpi" }
    /\ UNCHANGED << dir, contents, gdp, inflation, unemp, ftth, Sliders, scorecard >>
    /\ UNCHANGED fvars

\* Line 92: ftth = load_csv("france_ftth.csv").
LoadFtth ==
    /\ pc = "load_ftth"
    /\ LET r == load_csv("france_ftth.csv")
       IN  /\ ui' = ui \o r.shown
           /\ IF r.stopped
              THEN pc' = "stopped" /\ UNCHANGED << ftth, bound >>
              ELSE pc' = "sidebar" /\ ftth' = r.table /\ bound' = bound \cup { "ftth" }
    /\ UNCHANGED << dir, contents, gdp, inflation, unemp, lpi, Sliders, scorecard >>
    /\ UNCHANGED fvars

\* Lines 97-107: the sidebar header and the six sliders, each returning
\* the value the user has left it at.
Sidebar ==
    /\ pc = "sidebar"
    /\ gdp_center' \in slider_sample(GdpCenterMin, GdpCenterValue)
    /\ gdp_width' \in slider_sample(GdpWidthMin, GdpWidthValue)
    /\ inf_center' \in slider_sample(InfCenterMin, InfCenterValue)
    /\ inf_width' \in slider_sample(InfWidthMin, InfWidthValue)
    /\ un_center' \in slider_sample(UnCenterMin, UnCenterValue)
    /\ un_width' \in slider_sample(UnWidthMin, UnWidthValue)
    /\ ui' = ui \o << Element("sidebar.header", "Dashboard Controls"),
                       Element("sidebar.subheader", "Expected Range Bands (Editable for Pitch)"),
                       Element("sidebar.slider", << "GDP band center (%)", gdp_center' >>),
                       Element("sidebar.slider", << "GDP band width (%)", gdp_width' >>),
                       Element("sidebar.slider", << "Inflation band center (%)", inf_center' >>),
                       Element("sidebar.slider", << "Inflation band width (%)", inf_width' >>),
                       Element("sidebar.slider", << "Unemployment band center (%)", un_center' >>),
                       Element("sidebar.slider", << "Unemployment band width (%)", un_width' >>) >>
    /\ pc' = "tabs"
    /\ UNCHANGED << dir, contents, bound, Tables5, scorecard >>
    /\ UNCHANGED fvars

\* Line 112: the three tabs.
Tabs ==
    /\ pc = "tabs"
    /\ ui' = ui \o << Element("tabs", << "Macro Stability", "Competitiveness",
                                          "Sector Bets (Investor Pitch)" >>) >>
    /\ pc' = "tab1_gdp"
    /\ UNCHANGED << dir, contents, bound, Tables5, Sliders, scorecard >>
    /\ UNCHANGED fvars

\* Lines 117-128: the head of tab 1 and the GDP chart.
Tab1Gdp ==
    /\ pc = "tab1_gdp"
    /\ \E r \in plot_hist_forecast_band(gdp, "GDP Growth (Historical vs Forecast to 2030)", "%",
                                        FromTenths(gdp_center), FromTenths(gdp_width)) :
          ui' = ui \o << Element("subheader", "Macro Stability (Investor Comfort Layer)"),
                         Element("write", "Investors first ask"),
                         Element("columns", 3),
                         Element("pyplot", r.fig) >>
    /\ pc' = "tab1_inflation"
    /\ UNCHANGED << dir, contents, bound, Tables5, Sliders, scorecard >>
    /\ UNCHANGED fvars

\* Lines 130-135: the inflation chart.
Tab1Inflation ==
    /\ pc = "tab1_inflation"
    /\ \E r \in plot_hist_forecast_band(inflation,
                                        "Inflation (HICP) (Historical vs Forecast to 2030)", "%",
                                        FromTenths(inf_center), FromTenths(inf_width)) :
          ui' = ui \o << Element("pyplot", r.fig) >>
    /\ pc' = "tab1_unemp"
    /\ UNCHANGED << dir, contents, bound, Tables5, Sliders, scorecard >>
    /\ UNCHANGED fvars

\* Lines 137-144: the unemployment chart and the takeaway.
Tab1Unemp ==
    /\ pc = "tab1_unemp"
    /\ \E r \in plot_hist_forecast_band(unemp,
                                        "Unemployment Rate (Historical vs Forecast to 2030)", "%",
                                        FromTenths(un_center), FromTenths(un_width)) :
          ui' = ui \o << Element("pyplot", r.fig),
                         Element("success", "Macro takeaway") >>
    /\ pc' = "tab2_lpi"
    /\ UNCHANGED << dir, contents, bound, Tables5, Sliders, scorecard >>
    /\ UNCHANGED fvars

\* The figure of a trend chart: ax.bar or ax.plot over the cleaned table.
TrendFigure(kind, d, title, y_label) ==
    [title |-> title, xlabel |-> "Year", ylabel |-> y_label, kind |-> kind,
     x |-> [i \in 1..Len(d.rows) |-> astype_int(d.rows[i].year)],
     y |-> Values(d.rows)]

\* Lines 149-164: the head of tab 2 and the LPI bar chart.
Tab2Lpi ==
    /\ pc = "tab2_lpi"
    /\ \E lpi_clean \in clean_macro(lpi) :
          ui' = ui \o << Element("subheader", "Competitiveness (Execution Capability)"),
                         Element("write", "Investors ask"),
                         Element("columns", 2),
                         Element("markdown", "### Logistics Performance Index (World Bank)"),
                         Element("pyplot", TrendFigure("bar", lpi_clean, "France - LPI Trend",
                                                       "LPI Score")) >>
    /\ pc' = "tab2_ftth"
    /\ UNCHANGED << dir, contents, bound, Tables5, Sliders, scorecard >>
    /\ UNCHANGED fvars

\* Lines 166-175: the FTTH line chart.
Tab2Ftth ==
    /\ pc = "tab2_ftth"
    /\ \E ftth_clean \in clean_macro(ftth) :
          ui' = ui \o << Element("markdown", "### FTTH Penetration (OECD)"),
                         Element("pyplot", TrendFigure("line", ftth_clean, "France - FTTH Trend",
                                                       "%")) >>
    /\ pc' = "tab3"
    /\ UNCHANGED << dir, contents, bound, Tables5, Sliders, scorecard >>
    /\ UNCHANGED fvars

\* Lines 184-188: the literal sector records, labelled 0..3 (Overall in
\* tenths; "Defense" stands for the accented name of the source).
Sector(i, name, macro, policy, export, overall) ==
    [idx |-> i, Sector |-> name, MacroResilience |-> macro, PolicySupport |-> policy,
     ExportScale |-> export, Overall |-> overall]
SectorRecords ==
    << Sector(0, "Healthcare & Life Sciences (Health 2030)", 9, 9, 7, 85),
       Sector(1, "Aerospace & Defense", 8, 8, 9, 85),
       Sector(2, "Luxury & High-End Tourism", 6, 7, 9, 75),
       Sector(3, "Agri-Food Tech", 8, 8, 7, 78) >>
Overall(rs) == [i \in 1..Len(rs) |-> rs[i].Overall]

\* Lines 180-230: tab 3, the scorecard sorted by Overall, descending, and
\* the four pitch cards.
Tab3 ==
    /\ pc = "tab3"
    /\ scorecard' \in sort_values(SectorRecords, Overall(SectorRecords), FALSE)
    /\ ui' = ui \o << Element("subheader", "Sector Bets (Investor Pitch)"),
                       Element("write", "Macro variables influence each sector differently."),
                       Element("markdown", "### Sector Opportunity Scorecard"),
                       Element("dataframe", scorecard'),
                       Element("markdown", "### Pitch Cards"),
                       Element("columns", 2),
                       Element("markdown", "#### Healthcare & Life Sciences (Health 2030)"),
                       Element("markdown", "#### Aerospace & Defense"),
                       Element("markdown", "#### Luxury & High-End Tourism"),
                       Element("markdown", "#### Agri-Food Tech") >>
    /\ pc' = "done"
    /\ UNCHANGED << dir, contents, bound, Tables5, Sliders >>
    /\ UNCHANGED fvars

\* A user interaction reruns the script from its first line: a new pass,
\* with a fresh page and fresh script variables.
Rerun ==
    /\ pc \in { "done", "stopped" }
    /\ pc' = "setup"
    /\ ui' = << >>
    /\ bound' = {}
    /\ gdp' = EmptyFrame /\ inflation' = EmptyFrame /\ unemp' = EmptyFrame
    /\ lpi' = EmptyFrame /\ ftth' = EmptyFrame
    /\ gdp_center' = 0 /\ gdp_width' = 0 /\ inf_center' = 0 /\ inf_width' = 0
    /\ un_center' = 0 /\ un_width' = 0
    /\ scorecard' = << >>
    /\ UNCHANGED << dir, contents >>
    /\ UNCHANGED fvars

RenderNext ==
    \/ PageSetup
    \/ LoadGdp \/ LoadInflation \/ LoadUnemp \/ LoadLpi \/ LoadFtth
    \/ Sidebar \/ Tabs
    \/ Tab1Gdp \/ Tab1Inflation \/ Tab1Unemp
    \/ Tab2Lpi \/ Tab2Ftth
    \/ Tab3
    \/ Rerun

RenderInit ==
    /\ pc = "setup"
    /\ \E present \in SUBSET CsvFiles :
          /\ dir = present \cup { "app.py" }
          /\ contents \in { c \in [present -> MacroTables \cup TrendTables] :
                                 \A f \in present : c[f] \in TablesFor(f) }
    /\ ui = << >>
    /\ Unassigned
    /\ arg_df = EmptyFrame
    /\ arg_center = 0
    /\ arg_width = 0
    /\ step = "none"
    /\ ret_clean = EmptyFrame
    /\ ret_reclean = EmptyFrame
    /\ ret_plot = NoPlot

SpecRender == RenderInit /\ [][RenderNext]_vars

\* ------------------------------------------------------------------ claims
\* Helpers of the statements below.
Coerces(c) == to_numeric(c).t = "num"
InputRow(i) == arg_df.rows[CHOOSE j \in 1..Len(arg_df.rows) : arg_df.rows[j].idx = i]
SurvivingIdx ==
    { arg_df.rows[j].idx : j \in { k \in 1..Len(arg_df.rows) :
          Coerces(arg_df.rows[k].year) /\ Coerces(arg_df.rows[k].value) } }
IdxOf(rs) == { rs[j].idx : j \in 1..Len(rs) }
IdxSeq(rs) == [j \in 1..Len(rs) |-> rs[j].idx]
Ascending(rs) == \A j, k \in 1..Len(rs) : j < k => rs[j].year.v <= rs[k].year.v

\* The cleaned table holds each surviving input row once, coerced.
ExactlySurvivors(rs) ==
    /\ IdxOf(rs) = SurvivingIdx
    /\ Len(rs) = Cardinality(SurvivingIdx)
    /\ \A j \in 1..Len(rs) :
          /\ rs[j].year = to_numeric(InputRow(rs[j].idx).year)
          /\ rs[j].value = to_numeric(InputRow(rs[j].idx).value)
          /\ rs[j].year.t = "num"
          /\ rs[j].value.t = "num"

\* C1: clean_macro returns exactly the input rows whose year and value
\* both coerce to a number, none with a missing year or value, in ascending
\* order of year; the rows (2021,"2.3"), (2022,"bad"), (2023,"1.1") yield
\* the 2021 and 2023 rows only.
C1_CleanKeepsCoercedRowsSorted ==
    step = "cleaned" =>
        /\ ExactlySurvivors(ret_clean.rows)
        /\ Ascending(ret_clean.rows)
        /\ arg_df = ScenarioTable =>
              /\ IdxSeq(ret_clean.rows) = << 0, 2 >>
              /\ Years(ret_clean.rows) = << 20210, 20230 >>
              /\ Values(ret_clean.rows) = << 23, 11 >>

\* C1 witness: the scenario table cleaned, its 2022 row dropped.
C1_Witness ==
    /\ step = "cleaned"
    /\ arg_df = ScenarioTable
    /\ IdxSeq(ret_clean.rows) = << 0, 2 >>

\* C2 as claimed: clean_macro(clean_macro(x)) equals clean_macro(x), same
\* rows in the same order with the same contents.
C2_CleanIdempotent ==
    step = "recleaned" => ret_reclean = ret_clean

\* C9 as claimed: the sort of clean_macro is stable (surviving rows of
\* equal year keep their input order) and no row is deduplicated.
C9_CleanSortStable ==
    step = "cleaned" =>
        /\ IdxOf(ret_clean.rows) = SurvivingIdx
        /\ Len(ret_clean.rows) = Cardinality(SurvivingIdx)
        /\ \A j, k \in 1..Len(ret_clean.rows) :
              (j < k /\ ret_clean.rows[j].year.v = ret_clean.rows[k].year.v)
                  => ret_clean.rows[j].idx < ret_clean.rows[k].idx

\* The Type labels of the input rows that, trimmed of surrounding blanks
\* and lower-cased, read "historical", and those that read "forecast".
HistoricalLabels == { <<"H","i","s","t","o","r","i","c","a","l">>, <<"H","I","S","T","O","R","I","C","A","L">> }
ForecastLabels == { <<"F","o","r","e","c","a","s","t">>, <<" ","f","o","r","e","c","a","s","t"," ">>, <<" ","F","o","r","e","c","a","s","t"," ">> }
LabelledHistorical(i) ==
    InputRow(i).Type.t = "str" /\ InputRow(i).Type.s \in HistoricalLabels
LabelledForecast(i) ==
    InputRow(i).Type.t = "str" /\ InputRow(i).Type.s \in ForecastLabels

\* C5: a cleaned record is historical iff its trimmed, lower-cased Type
\* is "historical" and forecast iff it is "forecast"; the two are disjoint;
\* a record of any other Type is in neither and stays in the cleaned
\* series; without a Type column all of the series is historical and
\* forecast is empty.
C5_PartitionByType ==
    step = "plotted" =>
        /\ IdxOf(ret_plot.df.rows) = SurvivingIdx
        /\ IF arg_df.hasType
           THEN /\ IdxOf(ret_plot.hist) = { i \in SurvivingIdx : LabelledHistorical(i) }
                /\ IdxOf(ret_plot.fcst) = { i \in SurvivingIdx : LabelledForecast(i) }
                /\ IdxOf(ret_plot.hist) \cap IdxOf(ret_plot.fcst) = {}
                /\ \A j \in 1..Len(ret_plot.hist) :
                      \E k \in 1..Len(ret_plot.df.rows) : ret_plot.df.rows[k] = ret_plot.hist[j]
                /\ \A j \in 1..Len(ret_plot.fcst) :
                      \E k \in 1..Len(ret_plot.df.rows) : ret_plot.df.rows[k] = ret_plot.fcst[j]
           ELSE /\ ret_plot.hist = ret_plot.df.rows
                /\ ret_plot.fcst = << >>

\* C5 witness: a plotted table in which " Forecast " counts as forecast,
\* a record of another Type is in neither, and one record is historical.
C5_Witness ==
    /\ step = "plotted"
    /\ arg_df.hasType
    /\ \E i \in IdxOf(ret_plot.fcst) : InputRow(i).Type.s = <<" ","F","o","r","e","c","a","s","t"," ">>
    /\ \E i \in IdxOf(ret_plot.df.rows) :
          i \notin IdxOf(ret_plot.hist) \cup IdxOf(ret_plot.fcst)
    /\ ret_plot.hist # << >>

\* The dashed, unlabelled, unmarked segments of a figure.
Connectors(fig) ==
    SelectSeq(fig.lines, LAMBDA l : l.label = "" /\ l.marker = "" /\ l.linestyle = "--")
MaxYear(rs) == CHOOSE y \in { rs[j].year.v : j \in 1..Len(rs) } :
                   \A j \in 1..Len(rs) : rs[j].year.v <= y
MinYear(rs) == CHOOSE y \in { rs[j].year.v : j \in 1..Len(rs) } :
                   \A j \in 1..Len(rs) : y <= rs[j].year.v

\* C10: the connector is drawn exactly when historical and forecast are
\* both non-empty, and then once, from the last historical record in
\* ascending-year order to the first forecast record in ascending-year
\* order; it adds no record to the series.
C10_ConnectorDrawn ==
    step = "plotted" =>
        LET hist == ret_plot.hist
            fcst == ret_plot.fcst
            conn == Connectors(ret_plot.fig)
        IN  /\ Len(conn) = (IF hist # << >> /\ fcst # << >> THEN 1 ELSE 0)
            /\ Len(conn) = 1 =>
                  /\ conn[1].x = << MaxYear(hist), MinYear(fcst) >>
                  /\ conn[1].x[1] = hist[Len(hist)].year.v
                  /\ conn[1].y[1] = hist[Len(hist)].value.v
                  /\ conn[1].x[2] = fcst[1].year.v
                  /\ conn[1].y[2] = fcst[1].value.v
            /\ Len(ret_plot.df.rows) = Cardinality(SurvivingIdx)
            /\ Len(hist) + Len(fcst) <= Len(ret_plot.df.rows)

\* C10 witness: a connector between a historical part of two distinct
\* years and a forecast part.
C10_Witness ==
    /\ step = "plotted"
    /\ Len(Connectors(ret_plot.fig)) = 1
    /\ Len(ret_plot.hist) >= 2
    /\ ret_plot.hist[1].year.v < ret_plot.hist[Len(ret_plot.hist)].year.v

\* --- the band
\* |x| <= n units of 2^-57, for a small n.
MagAtMost(m, n) == m.a = 0 /\ m.b = 0 /\ m.c <= n
ExactSub(x, y) == ExactAdd(x, fneg(y))
\* One unit in the last place of a double, in units of 2^-57.
Ulp(x) == Pow2(ExcessBits(x.m))
\* x is the double nearest to the exact value e.
NearestTo(x, e) == MagAtMost(ExactSub(x, e).m, Ulp(x) \div 2)

BandCenter == FromTenths(arg_center)
BandWidth == FromTenths(arg_width)
Lower == ret_plot.fig.axhspan[1]
Upper == ret_plot.fig.axhspan[2]

\* C7 as claimed: lower = center - width/2, upper = center + width/2,
\* lower <= center <= upper and upper - lower = width; the last in exact
\* arithmetic on the values drawn or as Python computes upper - lower.
C7_BandExact ==
    step = "plotted" =>
        /\ Lower = fsub(BandCenter, fhalf(BandWidth))
        /\ Upper = fadd(BandCenter, fhalf(BandWidth))
        /\ fleq(Lower, BandCenter) /\ fleq(BandCenter, Upper)
        /\ \/ ExactSub(Upper, Lower) = BandWidth
           \/ fsub(Upper, Lower) = BandWidth

\* C7 amended: lower and upper are the doubles nearest to center - width/2
\* and center + width/2, lower <= center <= upper, and upper - lower is
\* width up to the rounding of the two bounds (half a unit in the last
\* place of each), whatever the series.
C7_BandRounded ==
    step = "plotted" =>
        /\ ret_plot.fig.axhline = BandCenter
        /\ NearestTo(Lower, ExactSub(BandCenter, fhalf(BandWidth)))
        /\ NearestTo(Upper, ExactAdd(BandCenter, fhalf(BandWidth)))
        /\ fleq(Lower, BandCenter) /\ fleq(BandCenter, Upper)
        /\ MagAtMost(ExactSub(ExactSub(Upper, Lower), BandWidth).m,
                     (Ulp(Lower) + Ulp(Upper)) \div 2)

\* C7 witness: the default GDP band, 0.5 and 1.2, drawn over the scenario
\* series: upper - lower is 1.2000000000000002, not 1.2.
C7_Witness ==
    /\ step = "plotted"
    /\ arg_center = GdpCenterValue
    /\ arg_width = GdpWidthValue
    /\ arg_df = ScenarioTable
    /\ ExactSub(Upper, Lower) # BandWidth

\* --- the script
LoadOrder == << "france_gdp.csv", "france_inflation.csv", "france_unemployment.csv",
                "france_lpi.csv", "france_ftth.csv" >>
LoadNames == << "gdp", "inflation", "unemp", "lpi", "ftth" >>
PcOrder == << "setup", "load_gdp", "load_inflation", "load_unemp", "load_lpi", "load_ftth",
              "sidebar", "tabs", "tab1_gdp", "tab1_inflation", "tab1_unemp",
              "tab2_lpi", "tab2_ftth", "tab3", "done" >>
PcIndex(p) == CHOOSE i \in 1..Len(PcOrder) : PcOrder[i] = p
Missing == { i \in 1..5 : LoadOrder[i] \notin dir }
FirstMissing == CHOOSE i \in Missing : \A j \in Missing : i <= j
KindCount(k) == Cardinality({ i \in 1..Len(ui) : ui[i].kind = k })
\* Charts, controls and tabs.
Rendered ==
    { i \in 1..Len(ui) : ui[i].kind \in { "pyplot", "dataframe", "tabs", "sidebar.header",
                                         "sidebar.subheader", "sidebar.slider", "columns" } }
\* C3: when one of the five files is missing the pass halts at that load
\* (no later file loaded, no chart, control or tab rendered); a pass ends
\* completed, all five files present, or halted on a missing file, never
\* part-rendered with charts shown.
C3_MissingFileHalts ==
    /\ Missing # {} =>
          /\ pc = "stopped" \/ PcIndex(pc) <= FirstMissing + 1
          /\ bound \subseteq { LoadNames[i] : i \in 1..(FirstMissing - 1) }
          /\ Rendered = {}
          /\ pc = "stopped" => bound = { LoadNames[i] : i \in 1..(FirstMissing - 1) }
    /\ pc = "stopped" => Missing # {}
    /\ pc = "done" =>
          /\ Missing = {}
          /\ bound = { LoadNames[i] : i \in 1..5 }
          /\ KindCount("pyplot") = 5
          /\ KindCount("sidebar.slider") = 6
          /\ KindCount("tabs") = 1
          /\ KindCount("dataframe") = 1
    /\ KindCount("pyplot") > 0 => Missing = {}
    /\ pc = "stopped" \/ \E i \in 1..Len(PcOrder) : PcOrder[i] = pc

\* C3 witness: a pass halted at the third load, the fourth file present
\* and not loaded.
C3_Witness ==
    /\ pc = "stopped"
    /\ Missing = { 3 }
    /\ bound = { "gdp", "inflation" }
    /\ lpi = EmptyFrame

\* C4: load_csv of a name that is not in the base directory reports the
\* joined path and a non-empty listing of the files that are there, and
\* returns no table; of a name that is there, it reports no error and
\* returns the parsed table.
C4_LoadCsvReportsMissingFile ==
    LET n == Cardinality(bound)
        tables == Tables5
    IN  /\ bound = { LoadNames[i] : i \in 1..n }
        /\ \A i \in 1..n : LoadOrder[i] \in dir /\ tables[i] = contents[LoadOrder[i]]
        /\ \A i \in (n + 1)..5 : tables[i] = EmptyFrame
        /\ (pc # "stopped" /\ pc # "setup") => n = (IF PcIndex(pc) >= 7 THEN 5 ELSE PcIndex(pc) - 2)
        /\ pc # "stopped" => KindCount("error") = 0
        /\ pc = "stopped" =>
              /\ LoadOrder[n + 1] \notin dir
              /\ KindCount("error") = 1
              /\ Len(ui) >= 3
              /\ ui[Len(ui) - 2] = Element("error", << "Missing file: ",
                                                      << BASE_DIR, LoadOrder[n + 1] >> >>)
              /\ ui[Len(ui) - 1] = Element("write", << "Running from:", BASE_DIR >>)
              /\ ui[Len(ui)].kind = "write"
              /\ ui[Len(ui)].body[2] = dir
              /\ dir # {}
              /\ dir \cap CsvFiles = { LoadOrder[i] : i \in (1..5) \ Missing }

\* C4 witness: the fourth load fails with three CSV files in the listing.
C4_Witness ==
    /\ pc = "stopped"
    /\ Missing = { 4, 5 }
    /\ ui[Len(ui) - 2].body[2] = << BASE_DIR, "france_lpi.csv" >>
    /\ "france_gdp.csv" \in ui[Len(ui)].body[2]

\* The band charts: title, table and sliders of each.
BandCharts ==
    << [title |-> "GDP Growth (Historical vs Forecast to 2030)", table |-> gdp,
        center |-> gdp_center, width |-> gdp_width, at |-> "tab1_gdp"],
       [title |-> "Inflation (HICP) (Historical vs Forecast to 2030)", table |-> inflation,
        center |-> inf_center, width |-> inf_width, at |-> "tab1_inflation"],
       [title |-> "Unemployment Rate (Historical vs Forecast to 2030)", table |-> unemp,
        center |-> un_center, width |-> un_width, at |-> "tab1_unemp"] >>
Figures(title) ==
    { ui[i].body : i \in { j \in 1..Len(ui) : ui[j].kind = "pyplot" /\ ui[j].body.title = title } }
CleansEmpty(d) ==
    \A j \in 1..Len(d.rows) : ~(Coerces(d.rows[j].year) /\ Coerces(d.rows[j].value))

\* C6: for a series empty after cleaning, plot_hist_forecast_band raises
\* nothing and returns a chart with the band and the center line and no
\* historical line, forecast line or connector; the other charts of the
\* pass are rendered all the same.
C6_EmptySeriesChart ==
    /\ \A k \in 1..3 :
          LET ch == BandCharts[k]
          IN  /\ (pc # "stopped" /\ PcIndex(pc) > PcIndex(ch.at)) =>
                    Cardinality(Figures(ch.title)) = 1
              /\ \A fig \in Figures(ch.title) :
                    CleansEmpty(ch.table) =>
                        /\ fig.lines = << >>
                        /\ fig.legend = << "Expected Range" >>
                        /\ fig.xticks = << >>
                        /\ fig.axhline = FromTenths(ch.center)
                        /\ fleq(fig.axhspan[1], fig.axhline)
                        /\ fleq(fig.axhline, fig.axhspan[2])
                        /\ fig.axhspan[1] # fig.axhspan[2]
    /\ pc = "done" => KindCount("pyplot") = 5

\* C6 witness: a completed pass whose GDP rows all fail to parse and whose
\* unemployment table has no rows, between them a chart with data.
C6_Witness ==
    /\ pc = "done"
    /\ gdp = AllBadTable
    /\ inflation = ScenarioTable
    /\ unemp = HeaderOnlyTable
    /\ \E fig \in Figures(BandCharts[1].title) : fig.lines = << >>
    /\ \E fig \in Figures(BandCharts[2].title) : Len(fig.lines) = 3

====
